---- MODULE Spec2Model ----
(***************************************************************************)
(* A model of python-twitter's request-preparation utilities               *)
(* (twitter/twitter_utils.py) and of its response models                   *)
(* (twitter/models.py).                                                    *)
(*                                                                         *)
(* Text is a sequence of Unicode code points.  Positions are 1-based; an   *)
(* "end" is the position just after the last character consumed, and 0     *)
(* stands for "the pattern does not match here".                           *)
(***************************************************************************)
EXTENDS Integers, Sequences, FiniteSets, TLC

VARIABLES
    status,             \* calc_expected_status_length / is_url: the text argument
    short_url_length,   \* calc_expected_status_length: its second argument
    status_length,      \* <<n>> once calc_expected_status_length returned n
    url_found,          \* <<b>> once is_url returned b
    streams,            \* every stream object opened so far, in order of opening
    passed_media,       \* parse_media_file: the argument of the last call
    outcome,            \* parse_media_file: how the last call ended
    left,               \* a model object (self in a comparison), or None
    right,              \* a model object (other in a comparison), or None
    compared,           \* <<[eq, ne]>> once left == right and left != right ran
    model_class,        \* NewFromJsonDict: the class it was called on, or "none"
    supplied,           \* NewFromJsonDict: data as the caller made it
    overrides,          \* NewFromJsonDict: the **kwargs written into data
    data,               \* NewFromJsonDict: the caller's data as it is now
    instance,           \* NewFromJsonDict: the object returned, or None
    as_dict             \* <<d>> once instance.AsDict() returned d

textVars == <<status, short_url_length, status_length, url_found>>

mediaVars == <<streams, passed_media, outcome>>

modelVars == <<left, right, compared>>

jsonVars == <<model_class, supplied, overrides, data, instance, as_dict>>

vars == <<status, short_url_length, status_length, url_found,
          streams, passed_media, outcome, left, right, compared,
          model_class, supplied, overrides, data, instance, as_dict>>

(***************************************************************************)
(* Characters                                                              *)
(***************************************************************************)
\* The code points of the characters the inputs below are written with.
Ord ==
    " " :> 32 @@ "!" :> 33 @@ "." :> 46 @@ "/" :> 47 @@ "1" :> 49 @@
    ":" :> 58 @@ "<" :> 60 @@ "=" :> 61 @@ "?" :> 63 @@ "\\" :> 92 @@
    "C" :> 67 @@ "M" :> 77 @@ "O" :> 79 @@
    "a" :> 97 @@ "c" :> 99 @@ "e" :> 101 @@ "h" :> 104 @@ "k" :> 107 @@
    "l" :> 108 @@ "m" :> 109 @@ "o" :> 111 @@ "p" :> 112 @@ "s" :> 115 @@
    "t" :> 116 @@ "w" :> 119 @@ "x" :> 120

Str(cs) == [i \in 1..Len(cs) |-> Ord[cs[i]]]

\* The character at position p, or -1 outside the text.
CharAt(s, p) == IF p \in 1..Len(s) THEN s[p] ELSE -1

\* (?i): case-insensitive comparison folds A-Z onto a-z.
Lower(c) == IF c \in 65..90 THEN c + 32 ELSE c

IsDigit(c) == c \in 48..57

\* A non-ASCII letter (e-acute), which re.UNICODE makes a word character.
UnicodeWord == {233}

\* \w under re.UNICODE: letters, digits, underscore.
IsWord(c) ==
    \/ c \in 48..57
    \/ c \in 65..90
    \/ c \in 97..122
    \/ c = 95
    \/ c \in UnicodeWord

\* \b: exactly one of the two neighbours is a word character.
WordBoundary(s, p) == IsWord(CharAt(s, p - 1)) # IsWord(CharAt(s, p))

\* A literal of the pattern matches at p (case-insensitively).
Literal(s, p, lit) ==
    /\ p >= 1
    /\ p + Len(lit) - 1 <= Len(s)
    /\ \A i \in 1..Len(lit) : Lower(s[p + i - 1]) = Lower(lit[i])

(***************************************************************************)
(* URL_REGEXP                                                              *)
(***************************************************************************)
\* The alternation over TLDS, in the order of the list, cut down to the
\* labels the inputs below can spell.
TLDS ==
    << Str(<<"c", "c">>), Str(<<"c", "o">>), Str(<<"c", "o", "m">>),
       Str(<<"o", "o", "o">>) >>

\* (?:https?://|www\\.) : one occurrence at p; its end, or 0.  In the raw
\* string "www\\." is www, a backslash, then any character but a newline.
SchemeAt(s, p) ==
    IF Literal(s, p, Str(<<"h", "t", "t", "p", "s", ":", "/", "/">>)) THEN p + 8
    ELSE IF Literal(s, p, Str(<<"h", "t", "t", "p", ":", "/", "/">>)) THEN p + 7
    ELSE IF /\ Literal(s, p, Str(<<"w", "w", "w", "\\">>))
            /\ p + 4 <= Len(s)
            /\ s[p + 4] # 10
         THEN p + 5
    ELSE 0

\* [\w+-_] : a word character, or anything in the range '+' (43) .. '_' (95).
DomainChar(c) == IsWord(c) \/ c \in 43..95

\* [\w+-_]+ at p, taken greedily: how many characters it takes.
DomainRun(s, p) ==
    LET run[q \in 1..Len(s) + 1] ==
            IF DomainChar(CharAt(s, q)) THEN 1 + run[q + 1] ELSE 0
    IN  run[p]

\* (?:[0-9]|[1-9][0-9]|1[0-9][0-9]|2[0-4][0-9]|25[0-5]) : the alternatives
\* in order; no \b follows this one.
OctetAt(s, q) ==
    IF IsDigit(CharAt(s, q)) THEN q + 1
    ELSE IF CharAt(s, q) \in 49..57 /\ IsDigit(CharAt(s, q + 1)) THEN q + 2
    ELSE IF /\ CharAt(s, q) = 49
            /\ IsDigit(CharAt(s, q + 1))
            /\ IsDigit(CharAt(s, q + 2))
         THEN q + 3
    ELSE IF /\ CharAt(s, q) = 50
            /\ CharAt(s, q + 1) \in 48..52
            /\ IsDigit(CharAt(s, q + 2))
         THEN q + 3
    ELSE IF /\ CharAt(s, q) = 50
            /\ CharAt(s, q + 1) = 53
            /\ CharAt(s, q + 2) \in 48..53
         THEN q + 3
    ELSE 0

\* One top-level label at q: the alternatives in the order of the pattern,
\* each label of TLDS followed by \b, the octet last; the end of the first
\* that matches, or 0.
TldAt(s, q) ==
    LET alt[i \in 1..Len(TLDS) + 1] ==
            IF i > Len(TLDS) THEN OctetAt(s, q)
            ELSE IF /\ Literal(s, q, TLDS[i])
                    /\ WordBoundary(s, q + Len(TLDS[i]))
                 THEN q + Len(TLDS[i])
            ELSE alt[i + 1]
    IN  alt[1]

\* (?:label)+ after its first occurrence: greedy, nothing after it can fail.
TldLoop(s, q) ==
    LET loop[r \in 1..Len(s) + 1] ==
            IF TldAt(s, r) = 0 THEN r ELSE loop[TldAt(s, r)]
    IN  loop[q]

\* [:\w+\/]
TailPrefix(c) == IsWord(c) \/ c \in {58, 43, 47}

\* [a-z0-9!\*\'\(\);:&=\+\$/%#\[\]\-_\.,~?]
TailChar(c) ==
    \/ Lower(c) \in 97..122
    \/ IsDigit(c)
    \/ c \in {33, 42, 39, 40, 41, 59, 58, 38, 61, 43, 36, 47, 37, 35, 91, 93,
              45, 95, 46, 44, 126, 63}

\* (?:[:\w+\/]?[a-z0-9...])* : greedy, the optional prefix tried first.
TailLoop(s, q) ==
    LET loop[r \in 1..Len(s) + 1] ==
            IF TailPrefix(CharAt(s, r)) /\ TailChar(CharAt(s, r + 1))
                THEN loop[r + 2]
            ELSE IF TailChar(CharAt(s, r)) THEN loop[r + 1]
            ELSE r
    IN  loop[q]

\* (?:[\w+-_]+[.])(?:label)+(?:tail)* at p: the longest domain first (greedy,
\* backtracking to a shorter one when no dot and label follow); the end of
\* the match, or 0.
DomainMatch(s, p) ==
    LET try[n \in 0..Len(s)] ==
            IF n = 0 THEN 0
            ELSE IF CharAt(s, p + n) = 46 /\ TldAt(s, p + n + 1) # 0
                THEN TailLoop(s, TldLoop(s, TldAt(s, p + n + 1)))
            ELSE try[n - 1]
    IN  try[DomainRun(s, p)]

\* The whole pattern at p, (?:https?://|www\\.)* first: one more scheme when
\* the rest then matches (greedy), otherwise the domain from here.
MatchAt(s, p) ==
    LET rest[q \in 1..Len(s) + 1] ==
            IF SchemeAt(s, q) # 0 /\ rest[SchemeAt(s, q)] # 0
                THEN rest[SchemeAt(s, q)]
            ELSE DomainMatch(s, q)
    IN  rest[p]

\* re.findall from position p on: the leftmost match, then on from its end.
FindFrom(s, p) ==
    LET from[q \in 1..Len(s) + 1] ==
            IF q > Len(s) THEN <<>>
            ELSE IF MatchAt(s, q) # 0
                THEN <<SubSeq(s, q, MatchAt(s, q) - 1)>> \o from[MatchAt(s, q)]
            ELSE from[q + 1]
    IN  from[p]

\* re.findall(URL_REGEXP, s): the pattern's one group is the whole match.
FindAll(s) == FindFrom(s, 1)

\* ''.join(match)
Join(match) ==
    LET joined[i \in 0..Len(match)] ==
            IF i = 0 THEN <<>> ELSE joined[i - 1] \o match[i]
    IN  joined[Len(match)]

\* A slip: only the first match's characters are taken off.
calc_first_match_only(s, k) ==
    LET match == FindAll(s)
        replaced_chars == IF Len(match) >= 1 THEN Len(match[1]) ELSE 0
    IN  Len(s) - replaced_chars + (k * Len(match))

\* A slip: the number of matches is taken off, not their characters.
calc_without_join(s, k) ==
    LET match == FindAll(s)
        replaced_chars == IF Len(match) >= 1 THEN Len(match) ELSE 0
    IN  Len(s) - replaced_chars + (k * Len(match))

calc_expected_status_length(s, k) ==
    LET match == FindAll(s)
        replaced_chars == IF Len(match) >= 1 THEN Len(Join(match)) ELSE 0
    IN  Len(s) - replaced_chars + (k * Len(match))

\* A slip: re.match, which looks at the start of the text only.
is_url_at_start(text) == IF MatchAt(text, 1) # 0 THEN TRUE ELSE FALSE

is_url(text) == IF FindAll(text) # <<>> THEN TRUE ELSE FALSE

(***************************************************************************)
(* The texts and lengths the two text functions are applied to             *)
(***************************************************************************)
MaxLen == 4

\* Every text of up to MaxLen characters over: letters of a label, a dot, a
\* digit, a space, a character only the domain class takes ('<') and one
\* only the tail class takes ('!').
Alphabet == {Ord[c] : c \in {"c", "o", ".", "1", " ", "<", "!"}}

SmallTexts == UNION {[1..n -> Alphabet] : n \in 0..MaxLen}

Schemes == {<<>>, Str(<<"h", "t", "t", "p", "s", ":", "/", "/">>)}

Hosts == {Str(<<"t">>), Str(<<"w", "w", "w", ".", "e", "x", "a", "m", "p", "l", "e">>)}

Labels == {Str(<<"c", "o">>), Str(<<"C", "O", "M">>), Str(<<"1">>)}

Paths == {<<>>, Str(<<"/", "a", "/", "p", "a", "t", "h", "?", "x", "=", "1">>)}

Urls == {sc \o h \o Str(<<".">>) \o l \o pa :
            sc \in Schemes, h \in Hosts, l \in Labels, pa \in Paths}

Check == Str(<<"c", "h", "e", "c", "k", " ">>)

Prefixes == {<<>>, Check}

\* A prefix, then one URL or two URLs a space apart.
UrlTexts ==
    {pre \o u : pre \in Prefixes, u \in Urls}
        \cup {pre \o u \o Str(<<" ">>) \o v : pre \in Prefixes, u \in Urls, v \in Urls}

Texts == SmallTexts \cup UrlTexts

DefaultShortUrlLength == 23

ShortUrlLengths == {-1, DefaultShortUrlLength}

\* No text function has been called.
TextIdle ==
    /\ status = <<>>
    /\ short_url_length = DefaultShortUrlLength
    /\ status_length = <<>>
    /\ url_found = <<>>

(***************************************************************************)
(* parse_media_file                                                        *)
(*                                                                         *)
(* A path or URL string is the sequence of its '/'-separated components:   *)
(* "pics/photo.jpg" is <<"pics", "photo.jpg">>, "/home/photo.jpg" is       *)
(* <<"", "home", "photo.jpg">>, "http://example.com/photo.jpg" is          *)
(* <<"http:", "", "example.com", "photo.jpg">>.  Python's None is "None"   *)
(* among strings and <<>> where a number is expected (<<n>> is n).         *)
(***************************************************************************)
MiB == 1048576

img_formats == {"image/jpeg", "image/png", "image/gif", "image/bmp", "image/webp"}

video_formats == {"video/mp4"}

\* mimetypes.guess_type(name)[0] for the names used below.
MimeTable ==
    "photo.jpg" :> "image/jpeg" @@ "clip.mp4" :> "video/mp4" @@
    "notes.txt" :> "text/plain"

guess_type(name) ==
    IF Len(name) = 1 /\ name[1] \in DOMAIN MimeTable THEN MimeTable[name[1]]
    ELSE "None"

\* os.path.basename: what follows the last '/'.
basename(path) == <<path[Len(path)]>>

\* The working directory of the process.
Cwd == <<"", "home">>

\* os.path.realpath: an absolute path is kept, a relative one is joined to
\* the working directory.
realpath(path) == IF path[1] = "" THEN path ELSE Cwd \o path

\* str.startswith('http')
startswith_http(path) == path[1] \in {"http:", "https:"}

\* A stream object.  kind: "file" (io file object) or "http" (HTTPResponse);
\* length: its total number of bytes (an HTTPResponse's .length, <<>> when
\* the server sent no Content-Length); rewinds: whether seek(0) works on it;
\* holder: who holds the reference to it.
NewStream(kind, name, length, rewinds, holder) ==
    [kind |-> kind, name |-> name, length |-> length, pos |-> 0,
     closed |-> FALSE, rewinds |-> rewinds, holder |-> holder]

\* stream.seek(offset) raises: ValueError on a closed file,
\* io.UnsupportedOperation on an HTTPResponse or a stream that cannot rewind.
SeekRaises(stream, offset) ==
    \/ stream.closed
    \/ stream.kind = "http"
    \/ (offset = 0 /\ ~stream.rewinds)

\* data_file.seek(0, 2) then data_file.tell(): the stream is at its end.
SeekEndTell(stream) == [stream EXCEPT !.pos = stream.length[1]]

\* A slip: the whole URL is kept as the filename.
ResolveUrlFullName(ss, url, reported) ==
    [streams |-> Append(ss, NewStream("http", url, reported, FALSE, "parse_media_file")),
     data_file |-> Len(ss) + 1,
     filename |-> url,
     file_size |-> reported]

\* Lines 174-177: the URL branch; reported is the length the server gave.
ResolveUrl(ss, url, reported) ==
    [streams |-> Append(ss, NewStream("http", url, reported, FALSE, "parse_media_file")),
     data_file |-> Len(ss) + 1,
     filename |-> basename(url),
     file_size |-> reported]

\* Lines 178-183: the local branch; the with block closes f when it is left.
ResolveLocal(ss, path, size) ==
    LET f == NewStream("file", realpath(path), <<size>>, TRUE, "parse_media_file")
        atEnd == SeekEndTell(f)
    IN  [streams |-> Append(ss, [atEnd EXCEPT !.closed = TRUE]),
         data_file |-> Len(ss) + 1,
         filename |-> basename(path),
         file_size |-> <<atEnd.pos>>]

\* Lines 187-191: a stream the caller passed in.
ResolveStream(ss, i) ==
    LET atEnd == SeekEndTell(ss[i])
    IN  [streams |-> [ss EXCEPT ![i] = atEnd],
         data_file |-> i,
         filename |-> ss[i].name,
         file_size |-> <<atEnd.pos>>]

\* A slip: the stream is left where the size was read.
RewindForgotten(ss, i) == ss

\* Lines 193-196: try: data_file.seek(0) / except: pass
Rewind(ss, i) ==
    IF SeekRaises(ss[i], 0) THEN ss ELSE [ss EXCEPT ![i].pos = 0]

\* Lines 198-206: "return", a TwitterError's message, or "TypeError" (what
\* None > int raises).  `and` evaluates its right side only when the left
\* side is true.
Validate(media_type, file_size) ==
    IF media_type \in img_formats /\ file_size = <<>> THEN "TypeError"
    ELSE IF media_type \in img_formats /\ file_size[1] > 5 * MiB
        THEN "Images must be less than 5MB."
    ELSE IF media_type \in video_formats /\ file_size = <<>> THEN "TypeError"
    ELSE IF media_type \in video_formats /\ file_size[1] > 15 * MiB
        THEN "Videos must be less than 15MB."
    ELSE IF media_type \notin img_formats /\ media_type \notin video_formats
        THEN "Media type could not be determined."
    ELSE "return"

\* How a call ends: kind is "returned", "TwitterError" or "TypeError"; the
\* rest are its local variables as it ends, stream being data_file itself.
Ending(kind, message, r, ss, media_type) ==
    [kind |-> kind, message |-> message, data_file |-> r.data_file,
     filename |-> r.filename, file_size |-> r.file_size,
     media_type |-> media_type, stream |-> ss[r.data_file]]

\* A returned stream is the caller's from then on; one the function opened
\* and did not return is nobody's once the function is left.
HandOver(ss, i, returned) ==
    [ss EXCEPT ![i].holder =
        IF returned THEN "caller"
        ELSE IF @ = "parse_media_file" THEN "nobody" ELSE @]

(***************************************************************************)
(* What parse_media_file is called with, and its callers                   *)
(***************************************************************************)
MaxStreams == 1

BaseNames == {"photo.jpg", "clip.mp4", "notes.txt"}

LocalPaths == {d \o <<b>> : d \in {<<>>, <<"pics">>}, b \in BaseNames}

RemoteUrls == {<<"http:", "", "example.com", "pics", b>> : b \in BaseNames}

Sizes == {4 * MiB, 5 * MiB, 5 * MiB + 1, 15 * MiB, 15 * MiB + 1}

\* What an HTTPResponse's .length can be: a Content-Length, or None.
ReportedLengths == {<<n>> : n \in Sizes} \cup {<<>>}

NoCall ==
    [kind |-> "none", message |-> "", data_file |-> 0, filename |-> <<>>,
     file_size |-> <<>>, media_type |-> "None",
     stream |-> NewStream("file", <<>>, <<>>, FALSE, "nobody")]

NoArgument == [kind |-> "none", string |-> <<>>, stream |-> 0, entry_pos |-> 0]

MediaIdle ==
    /\ streams = <<>>
    /\ passed_media = NoArgument
    /\ outcome = NoCall

\* The caller opens a local file of its own.
CallerOpen ==
    /\ Len(streams) < MaxStreams
    /\ \E path \in LocalPaths, size \in Sizes, rewinds \in BOOLEAN :
        streams' = Append(streams, NewStream("file", path, <<size>>, rewinds, "caller"))
    /\ UNCHANGED <<passed_media, outcome>>
    /\ UNCHANGED textVars
    /\ UNCHANGED modelVars
    /\ UNCHANGED jsonVars

\* The caller reads a stream it holds to the end.
CallerRead ==
    /\ \E i \in 1..Len(streams) :
        /\ streams[i].holder = "caller"
        /\ ~streams[i].closed
        /\ streams[i].length # <<>>
        /\ streams[i].pos # streams[i].length[1]
        /\ streams' = [streams EXCEPT ![i].pos = streams[i].length[1]]
    /\ UNCHANGED <<passed_media, outcome>>
    /\ UNCHANGED textVars
    /\ UNCHANGED modelVars
    /\ UNCHANGED jsonVars

\* The caller closes a stream it holds.
CallerClose ==
    /\ \E i \in 1..Len(streams) :
        /\ streams[i].holder = "caller"
        /\ ~streams[i].closed
        /\ streams' = [streams EXCEPT ![i].closed = TRUE]
    /\ UNCHANGED <<passed_media, outcome>>
    /\ UNCHANGED textVars
    /\ UNCHANGED modelVars
    /\ UNCHANGED jsonVars

\* parse_media_file(passed_media), from entry to return or raise.  resolved
\* is the state after lines 173-191, given what the file system or the
\* server answers.
ParseMediaFileFrom(arg, resolved) ==
    LET rewound == Rewind(resolved.streams, resolved.data_file)
        media_type == guess_type(basename(resolved.filename))
        verdict == Validate(media_type, resolved.file_size)
        kind == IF verdict = "return" THEN "returned"
                ELSE IF verdict = "TypeError" THEN "TypeError"
                ELSE "TwitterError"
    IN  /\ passed_media' = arg
        /\ outcome' = Ending(kind, IF kind = "TwitterError" THEN verdict ELSE "",
                             resolved, rewound, media_type)
        /\ streams' = HandOver(rewound, resolved.data_file, kind = "returned")
        /\ UNCHANGED textVars
        /\ UNCHANGED modelVars
        /\ UNCHANGED jsonVars

ParseMediaFile ==
    \/ \E url \in RemoteUrls, reported \in ReportedLengths :
        /\ Len(streams) < MaxStreams
        /\ startswith_http(url)
        /\ ParseMediaFileFrom(
                [kind |-> "str", string |-> url, stream |-> 0, entry_pos |-> 0],
                ResolveUrl(streams, url, reported))
    \/ \E path \in LocalPaths, size \in Sizes :
        /\ Len(streams) < MaxStreams
        /\ ~startswith_http(path)
        /\ ParseMediaFileFrom(
                [kind |-> "str", string |-> path, stream |-> 0, entry_pos |-> 0],
                ResolveLocal(streams, path, size))
    \/ \E i \in 1..Len(streams) :
        /\ streams[i].holder = "caller"
        /\ streams[i].kind = "file"
        /\ ~streams[i].closed
        /\ ParseMediaFileFrom(
                [kind |-> "stream", string |-> <<>>, stream |-> i,
                 entry_pos |-> streams[i].pos],
                ResolveStream(streams, i))

NextMedia == CallerOpen \/ CallerRead \/ CallerClose \/ ParseMediaFile

(***************************************************************************)
(* twitter/models.py                                                       *)
(*                                                                         *)
(* A Python value is a record tagged with its type; a dict is a function   *)
(* from its keys, a model object is its class and its attributes.          *)
(***************************************************************************)
PyNone == [t |-> "none"]

PyBool(b) == [t |-> "bool", b |-> b]

PyInt(i) == [t |-> "int", i |-> i]

PyStr(s) == [t |-> "str", s |-> s]

PyList(elems) == [t |-> "list", elems |-> elems]

PyDict(items) == [t |-> "dict", items |-> items]

PyObj(cls, attrs) == [t |-> "obj", cls |-> cls, attrs |-> attrs]

EmptyDict == [key \in {} |-> PyNone]

\* bool(v): None, False, 0, '', [] and {} are false; an object of a class
\* that defines neither __bool__ nor __len__ is true.
Truthy(v) ==
    CASE v.t = "none" -> FALSE
      [] v.t = "bool" -> v.b
      [] v.t = "int" -> v.i # 0
      [] v.t = "str" -> v.s # ""
      [] v.t = "list" -> v.elems # <<>>
      [] v.t = "dict" -> DOMAIN v.items # {}
      [] v.t = "obj" -> TRUE

\* x == y for numbers: bool is a subclass of int (True == 1, False == 0).
IsNum(v) == v.t \in {"bool", "int"}

Num(v) == IF v.t = "bool" THEN (IF v.b THEN 1 ELSE 0) ELSE v.i

\* x == y for the values a dict made by AsDict holds.
RECURSIVE PyEq(_, _)
PyEq(x, y) ==
    IF IsNum(x) /\ IsNum(y) THEN Num(x) = Num(y)
    ELSE IF x.t # y.t THEN FALSE
    ELSE IF x.t = "dict"
        THEN /\ DOMAIN x.items = DOMAIN y.items
             /\ \A key \in DOMAIN x.items : PyEq(x.items[key], y.items[key])
    ELSE x = y

\* self.param_defaults as each __init__ sets it.
param_defaults(cls) ==
    CASE cls = "Category" ->
            [name |-> PyNone, slug |-> PyNone, size |-> PyNone]
      [] cls = "Hashtag" ->
            [text |-> PyNone]
      [] cls = "UserStatus" ->
            [blocking |-> PyBool(FALSE), followed_by |-> PyBool(FALSE),
             following |-> PyBool(FALSE), following_received |-> PyBool(FALSE),
             following_requested |-> PyBool(FALSE), id |-> PyNone,
             id_str |-> PyNone, muting |-> PyBool(FALSE), name |-> PyNone,
             screen_name |-> PyNone]
      [] cls = "List" ->
            [id |-> PyNone, name |-> PyNone, slug |-> PyNone,
             description |-> PyNone, full_name |-> PyNone, mode |-> PyNone,
             uri |-> PyNone, member_count |-> PyNone,
             subscriber_count |-> PyNone, following |-> PyNone, user |-> PyNone]
      [] cls = "User" ->
            [contributors_enabled |-> PyNone, created_at |-> PyNone,
             default_profile |-> PyNone, default_profile_image |-> PyNone,
             description |-> PyNone, favourites_count |-> PyNone,
             followers_count |-> PyNone, friends_count |-> PyNone,
             geo_enabled |-> PyNone, id |-> PyNone, lang |-> PyNone,
             listed_count |-> PyNone, location |-> PyNone, name |-> PyNone,
             notifications |-> PyNone, profile_background_color |-> PyNone,
             profile_background_image_url |-> PyNone,
             profile_background_tile |-> PyNone, profile_banner_url |-> PyNone,
             profile_image_url |-> PyNone, profile_link_color |-> PyNone,
             profile_sidebar_fill_color |-> PyNone,
             profile_text_color |-> PyNone, protected |-> PyNone,
             screen_name |-> PyNone, status |-> PyNone,
             statuses_count |-> PyNone, time_zone |-> PyNone, url |-> PyNone,
             utc_offset |-> PyNone, verified |-> PyNone]
      [] cls = "Url" ->
            [expanded_url |-> PyNone, url |-> PyNone]
      [] cls = "Media" ->
            [id |-> PyNone, expanded_url |-> PyNone, display_url |-> PyNone,
             url |-> PyNone, media_url_https |-> PyNone, media_url |-> PyNone,
             type |-> PyNone]
      [] cls = "Status" ->
            [contributors |-> PyNone, coordinates |-> PyNone,
             created_at |-> PyNone, current_user_retweet |-> PyNone,
             favorite_count |-> PyNone, favorited |-> PyNone, geo |-> PyNone,
             hashtags |-> PyNone, id |-> PyNone, id_str |-> PyNone,
             in_reply_to_screen_name |-> PyNone,
             in_reply_to_status_id |-> PyNone,
             in_reply_to_user_id |-> PyNone, lang |-> PyNone,
             location |-> PyNone, media |-> PyNone, now |-> PyNone,
             place |-> PyNone, possibly_sensitive |-> PyNone,
             retweet_count |-> PyNone, retweeted |-> PyNone,
             retweeted_status |-> PyNone, scopes |-> PyNone,
             source |-> PyNone, text |-> PyNone, truncated |-> PyNone,
             urls |-> PyNone, user |-> PyNone, user_mentions |-> PyNone,
             withheld_copyright |-> PyNone,
             withheld_in_countries |-> PyNone, withheld_scope |-> PyNone]

\* UserStatus.connections: the names of the connection flags.
connections ==
    {"following", "followed_by", "following_received", "following_requested",
     "blocking", "muting"}

\* for (param, default) in self.param_defaults.items():
\*     setattr(self, param, kwargs.get(param, default))
SetDefaults(cls, kwargs) ==
    [param \in DOMAIN param_defaults(cls) |->
        IF param \in DOMAIN kwargs THEN kwargs[param]
        ELSE param_defaults(cls)[param]]

\* x in a list
InList(x, list) == \E i \in 1..Len(list.elems) : list.elems[i] = x

\* cls(**kwargs): the __init__ of each class.  List builds its user with
\* User.NewFromJsonDict; UserStatus raises the flags named in connections.
RECURSIVE New(_, _)
New(cls, kwargs) ==
    LET attrs == SetDefaults(cls, kwargs)
    IN  CASE cls = "List" /\ "user" \in DOMAIN kwargs ->
                PyObj(cls, [attrs EXCEPT !["user"] = New("User", kwargs["user"].items)])
          [] cls = "UserStatus" /\ "connections" \in DOMAIN kwargs ->
                PyObj(cls, [param \in DOMAIN attrs |->
                            IF /\ param \in connections
                               /\ InList(param, kwargs["connections"])
                            THEN PyBool(TRUE) ELSE attrs[param]])
          [] OTHER -> PyObj(cls, attrs)

\* TwitterModel.AsDict: an attribute that has an AsDict is converted with
\* it; any other is kept when it is true.
RECURSIVE AsDict(_)
AsDict(self) ==
    LET kept == {key \in DOMAIN param_defaults(self.cls) :
                    self.attrs[key].t = "obj" \/ Truthy(self.attrs[key])}
    IN  [key \in kept |->
            IF self.attrs[key].t = "obj" THEN PyDict(AsDict(self.attrs[key]))
            ELSE self.attrs[key]]

\* TwitterModel.__eq__: other and self.AsDict() == other.AsDict()
TwitterModel_eq(self, other) ==
    IF ~Truthy(other) THEN other
    ELSE PyBool(PyEq(PyDict(AsDict(self)), PyDict(AsDict(other))))

\* TwitterModel.__ne__: not self.__eq__(other)
TwitterModel_ne(self, other) == PyBool(~Truthy(TwitterModel_eq(self, other)))

(***************************************************************************)
(* NewFromJsonDict                                                         *)
(*                                                                         *)
(* A call is given the caller's dict object and writes into it, so each    *)
(* operator yields the instance it returns, the dict as the call leaves   *)
(* it, and the keyword arguments that were written into it.                *)
(***************************************************************************)
\* TwitterModel.NewFromJsonDict(data, **kwargs) on class cls.
NewFromJsonDict(cls, json, kwargs) ==
    LET written == [key \in DOMAIN json \cup DOMAIN kwargs |->
                        IF key \in DOMAIN kwargs THEN kwargs[key] ELSE json[key]]
    IN  [instance |-> New(cls, written), data |-> written, kwargs |-> kwargs]

\* [cls.NewFromJsonDict(x) for x in list]
ListOf(cls, list) ==
    PyList([i \in 1..Len(list.elems) |->
                NewFromJsonDict(cls, list.elems[i].items, EmptyDict).instance])

\* d[key] when d has the key, d being a dict's items; an empty dict otherwise.
ItemsUnder(d, key) == IF key \in DOMAIN d THEN d[key].items ELSE EmptyDict

\* A slip: the nested call works on a copy of data['retweeted_status'].
Status_NewFromJsonDictOnCopy(json) ==
    LET user == IF "user" \in DOMAIN json
                    THEN NewFromJsonDict("User", json["user"].items, EmptyDict).instance
                ELSE PyNone
        entities == ItemsUnder(json, "entities")
        extended_entities == ItemsUnder(json, "extended_entities")
        urls == IF "urls" \in DOMAIN entities
                    THEN ListOf("Url", entities["urls"]) ELSE PyNone
        user_mentions == IF "user_mentions" \in DOMAIN entities
                    THEN ListOf("User", entities["user_mentions"]) ELSE PyNone
        hashtags == IF "hashtags" \in DOMAIN entities
                    THEN ListOf("Hashtag", entities["hashtags"]) ELSE PyNone
        media == IF "media" \in DOMAIN extended_entities
                    THEN ListOf("Media", extended_entities["media"])
                 ELSE IF "media" \in DOMAIN entities
                    THEN ListOf("Media", entities["media"])
                 ELSE PyList(<<>>)
    IN  NewFromJsonDict("Status", json,
                        [user |-> user, urls |-> urls,
                         user_mentions |-> user_mentions,
                         hashtags |-> hashtags, media |-> media])

\* Status.NewFromJsonDict(data).  retweeted_status and current_user_retweet
\* are computed and then not handed to the constructor; the nested call has
\* by then written into data['retweeted_status'], which is the same dict
\* object inside the caller's data.
RECURSIVE Status_NewFromJsonDict(_)
Status_NewFromJsonDict(json) ==
    LET user == IF "user" \in DOMAIN json
                    THEN NewFromJsonDict("User", json["user"].items, EmptyDict).instance
                ELSE PyNone
        nested == Status_NewFromJsonDict(json["retweeted_status"].items)
        retweeted_status == IF "retweeted_status" \in DOMAIN json
                                THEN nested.instance ELSE PyNone
        current_user_retweet == IF "current_user_retweet" \in DOMAIN json
                                    THEN json["current_user_retweet"].items["id"]
                                ELSE PyNone
        entities == ItemsUnder(json, "entities")
        extended_entities == ItemsUnder(json, "extended_entities")
        urls == IF "urls" \in DOMAIN entities
                    THEN ListOf("Url", entities["urls"]) ELSE PyNone
        user_mentions == IF "user_mentions" \in DOMAIN entities
                    THEN ListOf("User", entities["user_mentions"]) ELSE PyNone
        hashtags == IF "hashtags" \in DOMAIN entities
                    THEN ListOf("Hashtag", entities["hashtags"]) ELSE PyNone
        media == IF "media" \in DOMAIN extended_entities
                    THEN ListOf("Media", extended_entities["media"])
                 ELSE IF "media" \in DOMAIN entities
                    THEN ListOf("Media", entities["media"])
                 ELSE PyList(<<>>)
        after_nested == IF "retweeted_status" \in DOMAIN json
                            THEN [json EXCEPT !["retweeted_status"] = PyDict(nested.data)]
                        ELSE json
    IN  NewFromJsonDict("Status", after_nested,
                        [user |-> user, urls |-> urls,
                         user_mentions |-> user_mentions,
                         hashtags |-> hashtags, media |-> media])

(***************************************************************************)
(* The model objects built and compared                                    *)
(***************************************************************************)
\* Every dict that gives some of the keys of opts one of the values opts
\* allows for it.
Mappings(opts) ==
    UNION { {f \in [K -> UNION {opts[key] : key \in K}] :
                \A key \in K : f[key] \in opts[key]} :
            K \in SUBSET DOMAIN opts }

\* The keyword arguments each class is built from: declared fields set to
\* None, to false values and to true ones, and keys the class does not
\* declare.
KwargsOf(cls) ==
    CASE cls = "Category" ->
            Mappings([name |-> {PyStr(""), PyStr("a")},
                      size |-> {PyNone, PyInt(0), PyInt(1)},
                      extra |-> {PyInt(1)}])
      [] cls = "Hashtag" ->
            Mappings([text |-> {PyStr(""), PyStr("a")}])
      [] cls = "UserStatus" ->
            Mappings([following |-> {PyBool(FALSE), PyBool(TRUE)},
                      id |-> {PyInt(0), PyInt(1)},
                      connections |-> {PyList(<<>>), PyList(<<"following">>)}])
      [] cls = "List" ->
            Mappings([id |-> {PyInt(1)},
                      user |-> {PyDict(EmptyDict), PyDict([id |-> PyInt(0)]),
                                PyDict([id |-> PyInt(1)])}])
      [] cls = "User" ->
            Mappings([id |-> {PyInt(0), PyInt(1)}, screen_name |-> {PyStr("a")}])

Classes == {"Category", "Hashtag", "UserStatus", "List", "User"}

ModelIdle ==
    /\ left = PyNone
    /\ right = PyNone
    /\ compared = <<>>

\* left = cls(**kwargs)
ConstructLeft ==
    /\ compared = <<>>
    /\ \E cls \in Classes : \E kwargs \in KwargsOf(cls) : left' = New(cls, kwargs)
    /\ UNCHANGED <<right, compared>>
    /\ UNCHANGED textVars
    /\ UNCHANGED mediaVars
    /\ UNCHANGED jsonVars

\* right = cls(**kwargs)
ConstructRight ==
    /\ compared = <<>>
    /\ \E cls \in Classes : \E kwargs \in KwargsOf(cls) : right' = New(cls, kwargs)
    /\ UNCHANGED <<left, compared>>
    /\ UNCHANGED textVars
    /\ UNCHANGED mediaVars
    /\ UNCHANGED jsonVars

\* left == right and left != right, right being an object or None.
Compare ==
    /\ compared = <<>>
    /\ left # PyNone
    /\ compared' = <<[eq |-> TwitterModel_eq(left, right),
                      ne |-> TwitterModel_ne(left, right)]>>
    /\ UNCHANGED <<left, right>>
    /\ UNCHANGED textVars
    /\ UNCHANGED mediaVars
    /\ UNCHANGED jsonVars

NextModel == ConstructLeft \/ ConstructRight \/ Compare

(***************************************************************************)
(* The JSON dicts model objects are built from, and the calls              *)
(***************************************************************************)
\* Marks a key a dict is made without.
Absent == [t |-> "absent"]

\* The dict holding the keys of r that are not marked absent.
Present(r) == [key \in {k \in DOMAIN r : r[k] # Absent} |-> r[key]]

UserJson == PyDict([id |-> PyInt(2), screen_name |-> PyStr("a")])

\* A retweeted status, one of them holding a user and a retweeted status of
\* its own.
RetweetedJson ==
    {PyDict([id |-> PyInt(4)]),
     PyDict([id |-> PyInt(4), user |-> UserJson,
             retweeted_status |-> PyDict([id |-> PyInt(5)])])}

EntitiesJson ==
    {PyDict([urls |-> PyList(<<PyDict([url |-> PyStr("u")])>>),
             hashtags |-> PyList(<<PyDict([text |-> PyStr("h")])>>)]),
     PyDict([media |-> PyList(<<PyDict([id |-> PyInt(6)])>>),
             user_mentions |-> PyList(<<UserJson>>)])}

ExtendedEntitiesJson ==
    {PyDict([media |-> PyList(<<PyDict([id |-> PyInt(7)]),
                                PyDict([id |-> PyInt(8)])>>)])}

\* The dicts Status.NewFromJsonDict is called with: a status of the API,
\* with or without each part, and with or without a raw value under a key
\* the call writes.
StatusData ==
    {Present([id |-> i, user |-> u, current_user_retweet |-> c,
              retweeted_status |-> r, entities |-> e,
              extended_entities |-> x, media |-> m]) :
        i \in {Absent, PyInt(1)},
        u \in {Absent, UserJson},
        c \in {Absent, PyDict([id |-> PyInt(3)])},
        r \in {Absent} \cup RetweetedJson,
        e \in {Absent} \cup EntitiesJson,
        x \in {Absent} \cup ExtendedEntitiesJson,
        m \in {Absent, PyStr("raw")}}

\* **kwargs of TwitterModel.NewFromJsonDict: none, or one override.
OverrideKwargs == {EmptyDict, [name |-> PyStr("b")]}

JsonIdle ==
    /\ model_class = "none"
    /\ supplied = EmptyDict
    /\ overrides = EmptyDict
    /\ data = EmptyDict
    /\ instance = PyNone
    /\ as_dict = <<>>

\* instance = cls.NewFromJsonDict(data, **kwargs), cls not being Status.
CallNewFromJsonDict ==
    /\ instance = PyNone
    /\ \E cls \in Classes : \E json \in KwargsOf(cls), kwargs \in OverrideKwargs :
        /\ model_class' = cls
        /\ supplied' = json
        /\ overrides' = kwargs
        /\ data' = NewFromJsonDict(cls, json, kwargs).data
        /\ instance' = NewFromJsonDict(cls, json, kwargs).instance
    /\ UNCHANGED as_dict
    /\ UNCHANGED textVars
    /\ UNCHANGED mediaVars
    /\ UNCHANGED modelVars

\* instance = Status.NewFromJsonDict(data)
CallStatusNewFromJsonDict ==
    /\ instance = PyNone
    /\ \E json \in StatusData :
        /\ model_class' = "Status"
        /\ supplied' = json
        /\ overrides' = Status_NewFromJsonDict(json).kwargs
        /\ data' = Status_NewFromJsonDict(json).data
        /\ instance' = Status_NewFromJsonDict(json).instance
    /\ UNCHANGED as_dict
    /\ UNCHANGED textVars
    /\ UNCHANGED mediaVars
    /\ UNCHANGED modelVars

\* instance.AsDict()
CallAsDict ==
    /\ instance # PyNone
    /\ as_dict = <<>>
    /\ as_dict' = <<AsDict(instance)>>
    /\ UNCHANGED <<model_class, supplied, overrides, data, instance>>
    /\ UNCHANGED textVars
    /\ UNCHANGED mediaVars
    /\ UNCHANGED modelVars

NextJson == CallNewFromJsonDict \/ CallStatusNewFromJsonDict \/ CallAsDict

(***************************************************************************)
(* The text functions as a state machine: Init draws the arguments, each   *)
(* action applies one function to them.                                    *)
(***************************************************************************)
CalcExpectedStatusLength ==
    /\ status_length = <<>>
    /\ status_length' = <<calc_expected_status_length(status, short_url_length)>>
    /\ UNCHANGED <<status, short_url_length, url_found>>
    /\ UNCHANGED mediaVars
    /\ UNCHANGED modelVars
    /\ UNCHANGED jsonVars

IsUrl ==
    /\ url_found = <<>>
    /\ url_found' = <<is_url(status)>>
    /\ UNCHANGED <<status, short_url_length, status_length>>
    /\ UNCHANGED mediaVars
    /\ UNCHANGED modelVars
    /\ UNCHANGED jsonVars

NextText == CalcExpectedStatusLength \/ IsUrl

(***************************************************************************)
(* Specifications: one per component, the other components idle, and the   *)
(* three together                                                          *)
(***************************************************************************)
InitText ==
    /\ status \in Texts
    /\ short_url_length \in ShortUrlLengths
    /\ status_length = <<>>
    /\ url_found = <<>>
    /\ MediaIdle
    /\ ModelIdle
    /\ JsonIdle

InitMedia ==
    /\ MediaIdle
    /\ TextIdle
    /\ ModelIdle
    /\ JsonIdle

InitModel ==
    /\ ModelIdle
    /\ TextIdle
    /\ MediaIdle
    /\ JsonIdle

InitJson ==
    /\ JsonIdle
    /\ TextIdle
    /\ MediaIdle
    /\ ModelIdle

SpecText == InitText /\ [][NextText]_vars

SpecMedia == InitMedia /\ [][NextMedia]_vars

SpecModel == InitModel /\ [][NextModel]_vars

SpecJson == InitJson /\ [][NextJson]_vars

Init == InitText \/ InitMedia \/ InitModel \/ InitJson

Next == NextText \/ NextMedia \/ NextModel \/ NextJson

Spec == Init /\ [][Next]_vars

(***************************************************************************)
(* Properties of the text functions (checked under SpecText)               *)
(***************************************************************************)
RECURSIVE SumLen(_)
SumLen(ms) == IF ms = <<>> THEN 0 ELSE Len(Head(ms)) + SumLen(Tail(ms))

\* The strings ms are matches of the pattern in s, one after the other and
\* each starting at or after position p: no character is in two of them.
RECURSIVE Located(_, _, _)
Located(ms, s, p) ==
    \/ ms = <<>>
    \/ \E q \in p..Len(s) :
        /\ MatchAt(s, q) = q + Len(Head(ms))
        /\ SubSeq(s, q, q + Len(Head(ms)) - 1) = Head(ms)
        /\ Located(Tail(ms), s, q + Len(Head(ms)))

\* C1: calc_expected_status_length returns len(status), minus the lengths of
\* the URL matches found in status, plus short_url_length for each match; the
\* matches lie one after the other in status, no character in two of them.
C1_LengthFormula ==
    status_length # <<>> =>
        /\ status_length[1] =
              Len(status) - SumLen(FindAll(status))
                  + short_url_length * Len(FindAll(status))
        /\ Located(FindAll(status), status, 1)
        /\ SumLen(FindAll(status)) <= Len(status)

\* Two URLs in one status, each counted at short_url_length.
C1_Witness ==
    /\ status_length # <<>>
    /\ Len(FindAll(status)) = 2
    /\ status_length[1] # Len(status)

\* C7: is_url is true exactly when the pattern matches somewhere in the text;
\* so a text for which is_url is false has its own length as its expected
\* length, whatever short_url_length is, and the empty status has length 0.
C7_IsUrlIffSomeMatch ==
    /\ url_found # <<>> =>
          (url_found[1] <=> \E p \in 1..Len(status) : MatchAt(status, p) # 0)
    /\ (url_found = <<FALSE>> /\ status_length # <<>>) =>
          status_length[1] = Len(status)
    /\ (status = <<>> /\ status_length # <<>>) => status_length[1] = 0

\* A text that is not empty and holds no URL, with both functions applied.
C7_Witness ==
    /\ url_found = <<FALSE>>
    /\ status_length = <<Len(status)>>
    /\ Len(status) > 0

\* The text after "check ", when status starts with it.
AfterCheck(s) == SubSeq(s, Len(Check) + 1, Len(s))

StartsWithCheck(s) == Len(s) >= Len(Check) /\ SubSeq(s, 1, Len(Check)) = Check

\* url is a URL: the pattern, applied at its start, takes all of it.
IsWholeUrl(url) == MatchAt(url, 1) = Len(url) + 1

Called == outcome.kind # "none"

LocalCall == Called /\ passed_media.kind = "str" /\ ~startswith_http(passed_media.string)

StreamCall == Called /\ passed_media.kind = "stream"

\* C2: for a local path to an image of at most 5 MiB the call returns, and
\* the stream it returns is open and at offset 0, the size is the file's
\* length and the category is an image type.
C2_LocalImageReturnedOpen ==
    ( /\ LocalCall
      /\ guess_type(basename(passed_media.string)) \in img_formats
      /\ outcome.stream.length[1] <= 5 * MiB )
    => /\ outcome.kind = "returned"
       /\ ~outcome.stream.closed
       /\ outcome.stream.pos = 0
       /\ outcome.file_size = outcome.stream.length
       /\ outcome.media_type \in img_formats

\* C3: the call raises the image error for an image over 5 MiB, the video
\* error for a video over 15 MiB, the undetermined-type error for anything
\* that is neither, and returns in every other case.
C3_ValidationCases ==
    Called =>
        IF /\ outcome.media_type \in img_formats
           /\ outcome.file_size # <<>>
           /\ outcome.file_size[1] > 5 * MiB
            THEN /\ outcome.kind = "TwitterError"
                 /\ outcome.message = "Images must be less than 5MB."
        ELSE IF /\ outcome.media_type \in video_formats
                /\ outcome.file_size # <<>>
                /\ outcome.file_size[1] > 15 * MiB
            THEN /\ outcome.kind = "TwitterError"
                 /\ outcome.message = "Videos must be less than 15MB."
        ELSE IF outcome.media_type \notin (img_formats \cup video_formats)
            THEN /\ outcome.kind = "TwitterError"
                 /\ outcome.message = "Media type could not be determined."
        ELSE outcome.kind = "returned"

\* The size limit of a category.
LimitOf(media_type) == IF media_type \in img_formats THEN 5 * MiB ELSE 15 * MiB

\* C4: a call ends with a TwitterError carrying a message, or returns a
\* descriptor whose category is an image or video type and whose size is a
\* number, not negative, the stream's total length and within the limit.
C4_ErrorOrValidDescriptor ==
    Called =>
        \/ outcome.kind = "TwitterError" /\ outcome.message # ""
        \/ /\ outcome.kind = "returned"
           /\ outcome.media_type \in (img_formats \cup video_formats)
           /\ outcome.file_size # <<>>
           /\ outcome.file_size[1] >= 0
           /\ outcome.file_size = outcome.stream.length
           /\ outcome.file_size[1] <= LimitOf(outcome.media_type)

\* C5: a stream parse_media_file opened is closed when the call raises a
\* validation error; no open stream is left that nobody holds.
C5_NoOpenStreamUnheld ==
    /\ (Called /\ outcome.kind = "TwitterError" /\ passed_media.kind = "str")
          => outcome.stream.closed
    /\ \A i \in 1..Len(streams) :
          streams[i].holder = "nobody" => streams[i].closed

\* C6: a stream the caller passed in is not closed by the call, however it
\* ends; the size is the offset of its end; it is put back at offset 0
\* wherever it was; when it cannot be put back the call carries on to
\* classify and validate all the same.
C6_CallerStreamBorrowed ==
    StreamCall =>
        /\ ~outcome.stream.closed
        /\ outcome.file_size = outcome.stream.length
        /\ outcome.stream.rewinds => outcome.stream.pos = 0
        /\ outcome.kind \in {"returned", "TwitterError"}
        /\ outcome.media_type = guess_type(basename(outcome.stream.name))
        /\ outcome.kind = "returned" <=>
              Validate(outcome.media_type, outcome.stream.length) = "return"

\* A stream that was not at offset 0 and cannot be put back, and the call
\* returns its descriptor.
C6_Witness ==
    /\ StreamCall
    /\ passed_media.entry_pos # 0
    /\ ~outcome.stream.rewinds
    /\ outcome.kind = "returned"

\* C9: the filename of a returned descriptor has no directory component.
C9_FilenameIsBasename ==
    (Called /\ outcome.kind = "returned") => Len(outcome.filename) = 1

RemoteCall == Called /\ passed_media.kind = "str" /\ startswith_http(passed_media.string)

\* A step in which parse_media_file is called.
CallStep == outcome' # outcome \/ passed_media' # passed_media

\* How each kind of argument was resolved, as the call's ending shows it.
BranchTaken ==
    /\ StreamCall =>
          /\ outcome.data_file = passed_media.stream
          /\ outcome.stream.kind = "file"
          /\ outcome.file_size = outcome.stream.length
    /\ RemoteCall =>
          /\ outcome.stream.kind = "http"
          /\ outcome.stream.name = passed_media.string
          /\ outcome.filename = <<passed_media.string[Len(passed_media.string)]>>
          /\ outcome.file_size = outcome.stream.length
    /\ LocalCall =>
          /\ outcome.stream.kind = "file"
          /\ outcome.stream.name = realpath(passed_media.string)
          /\ outcome.file_size # <<>>
          /\ outcome.file_size = outcome.stream.length

\* What a call opens: nothing when it is given a stream, exactly one stream
\* (the one it works on) when it is given a string.
OpensOnlyForStrings ==
    CallStep =>
        IF passed_media'.kind = "stream"
            THEN /\ Len(streams') = Len(streams)
                 /\ \A j \in 1..Len(streams) :
                       /\ streams'[j].kind = streams[j].kind
                       /\ streams'[j].name = streams[j].name
        ELSE /\ Len(streams') = Len(streams) + 1
             /\ outcome'.data_file = Len(streams')
             /\ SubSeq(streams', 1, Len(streams)) = streams

RECURSIVE SameFields(_, _)
SameFields(x, y) ==
    /\ DOMAIN x.attrs = DOMAIN y.attrs
    /\ \A key \in DOMAIN x.attrs :
          IF x.attrs[key].t = "obj" /\ y.attrs[key].t = "obj"
              THEN SameFields(x.attrs[key], y.attrs[key])
          ELSE IF IsNum(x.attrs[key]) /\ IsNum(y.attrs[key])
              THEN Num(x.attrs[key]) = Num(y.attrs[key])
          ELSE x.attrs[key] = y.attrs[key]

\* C10: two model objects compare equal exactly when their field-value
\* mappings are equal (a field that is 0, False or '' in one and None in the
\* other makes them unequal), and != is the negation of ==.
C10_EqualIffSameFields ==
    (compared # <<>> /\ right # PyNone) =>
        /\ compared[1].eq = PyBool(SameFields(left, right))
        /\ compared[1].ne = PyBool(~SameFields(left, right))

(***************************************************************************)
(* Properties of NewFromJsonDict and AsDict (checked under SpecJson)       *)
(***************************************************************************)
\* The fields of json whose value is not the default of the field in cls.
NonDefault(cls, json) ==
    [key \in {k \in DOMAIN json : json[k] # param_defaults(cls)[k]} |-> json[key]]

\* C11: for a mapping of declared fields, NewFromJsonDict and then AsDict
\* give back exactly the supplied fields whose value is not the field's
\* default, with the supplied values, and no other key.
C11_RoundTrip ==
    ( /\ as_dict # <<>>
      /\ DOMAIN supplied \subseteq DOMAIN param_defaults(model_class)
      /\ (overrides = EmptyDict \/ model_class = "Status") )
    => as_dict[1] = NonDefault(model_class, supplied)

\* C12: the Status made from data has as current_user_retweet the id under
\* data['current_user_retweet'] when data has that entry, and None when it
\* has not.
C12_CurrentUserRetweetIsId ==
    model_class = "Status" =>
        instance.attrs["current_user_retweet"] =
            IF "current_user_retweet" \in DOMAIN supplied
                THEN supplied["current_user_retweet"].items["id"]
            ELSE PyNone

\* v is a model object of class cls.
IsModel(v, cls) == v.t = "obj" /\ v.cls = cls

\* v is a Status object whose user and retweeted_status are model objects
\* wherever json holds a mapping for them, the retweeted status by the same
\* rule.
RECURSIVE NestedBuilt(_, _)
NestedBuilt(v, json) ==
    /\ IsModel(v, "Status")
    /\ "user" \in DOMAIN json => IsModel(v.attrs["user"], "User")
    /\ "retweeted_status" \in DOMAIN json =>
          NestedBuilt(v.attrs["retweeted_status"], json["retweeted_status"].items)

\* C13: where a nested mapping is supplied the object holds a model object
\* built from it, not the mapping: a List's user is a User, a Status's user
\* is a User and its retweeted_status a Status built by the same rules.
C13_NestedObjectsBuilt ==
    /\ (model_class = "List" /\ "user" \in DOMAIN supplied)
          => IsModel(instance.attrs["user"], "User")
    /\ model_class = "Status" => NestedBuilt(instance, supplied)

\* The keys Status.NewFromJsonDict writes into data.
Written == {"user", "urls", "user_mentions", "hashtags", "media"}

\* data is supplied with the overrides written into it: it holds the keys
\* of both, each override under its key.
OverridesWritten ==
    /\ DOMAIN data = DOMAIN supplied \cup DOMAIN overrides
    /\ \A key \in DOMAIN overrides : data[key] = overrides[key]
    /\ model_class = "Status" =>
          /\ DOMAIN overrides = Written
          /\ \A key \in Written : data[key] = instance.attrs[key]

\* The statement as it stands: every key that is not overridden holds what
\* it held when the caller made the mapping.
C15_OtherKeysUnchanged ==
    model_class # "none" =>
        /\ OverridesWritten
        /\ \A key \in DOMAIN supplied \ DOMAIN overrides : data[key] = supplied[key]

\* after is before as a call of Status.NewFromJsonDict leaves it: the five
\* keys added, a retweeted_status mapping left in the same way by the call
\* made on it, every other key as it was.
RECURSIVE LeftByStatusCall(_, _)
LeftByStatusCall(after, before) ==
    /\ DOMAIN after = DOMAIN before \cup Written
    /\ \A key \in DOMAIN before \ Written :
          IF key = "retweeted_status"
              THEN /\ after[key].t = "dict"
                   /\ LeftByStatusCall(after[key].items, before[key].items)
          ELSE after[key] = before[key]

\* C15: NewFromJsonDict changes the caller's mapping only by writing the
\* keyword overrides into it.  With no override the mapping is as it was;
\* after Status.NewFromJsonDict it holds user, urls, user_mentions, hashtags
\* and media bound to the constructed values, and every other key is as it
\* was, except that a mapping under retweeted_status, on which the call
\* calls itself, has been written into in the same way.
C15_OverridesWrittenNestedToo ==
    model_class # "none" =>
        /\ OverridesWritten
        /\ overrides = EmptyDict => data = supplied
        /\ IF model_class = "Status" THEN LeftByStatusCall(data, supplied)
           ELSE \A key \in DOMAIN supplied \ DOMAIN overrides :
                    data[key] = supplied[key]

\* A status with a retweeted status that holds one of its own, and a raw
\* value under media: the call replaced the raw value and wrote into both
\* nested mappings.
C15_Witness ==
    /\ model_class = "Status"
    /\ "media" \in DOMAIN supplied
    /\ data["media"] # supplied["media"]
    /\ "retweeted_status" \in DOMAIN supplied
    /\ "retweeted_status" \in DOMAIN supplied["retweeted_status"].items
    /\ "media" \in DOMAIN data["retweeted_status"].items["retweeted_status"].items

====
